---- MODULE Spec2Model ----
(***************************************************************************)
(* Record/replay harness for HTTP protocol tests (mitmproxy addons).       *)
(*                                                                         *)
(*   src/record.py         recording controller: start_recording,          *)
(*                         stop_recording, save, Record.response           *)
(*   src/test.py           replay controller: start_testcase, clear_test,  *)
(*                         check_test, TestState.next_response,            *)
(*                         Test.request                                    *)
(*   src/protocol_test.py  ProtocolTest, load_testcase, dec/enc,           *)
(*                         serialize/deserialize                           *)
(*                                                                         *)
(* Byte strings (Python bytes) are sequences of integers 0..255; text      *)
(* strings (Python str) are sequences of Unicode code points.  A call that *)
(* may raise returns [ok |-> BOOLEAN, err |-> exception, val |-> value].   *)
(***************************************************************************)
EXTENDS Integers, Sequences, FiniteSets, TLC

(***************************************************************************)
(* Bounds of the model.                                                    *)
(***************************************************************************)
\* longest list of exchanges a recording session accumulates
MaxRecording == 2
\* most requests a client issues in one replay session
MaxRequests == 3
\* longest body, in bytes, of a message given to the codec
MaxBody == 2
\* most header pairs of a message given to the codec
MaxHeaders == 2

(***************************************************************************)
(* Python's None: None where a string is expected (test_id), NoneObj where  *)
(* an object is expected (test_state, flow.response, a validator).         *)
(***************************************************************************)
None == "None"
NoneObj == [none |-> TRUE]

(***************************************************************************)
(* dec / enc: strict UTF-8, as bytes.decode('utf-8') and str.encode.       *)
(***************************************************************************)
IsCont(b) == b >= 128 /\ b <= 191

\* number of bytes of the well-formed UTF-8 sequence that starts b at
\* position i, or 0 when the bytes at i are not well-formed UTF-8
Utf8Len(b, i) ==
  LET n  == Len(b)
      b0 == b[i]
      c1 == IF i + 1 <= n THEN b[i + 1] ELSE 0
      c2 == IF i + 2 <= n THEN b[i + 2] ELSE 0
      c3 == IF i + 3 <= n THEN b[i + 3] ELSE 0
  IN  IF b0 <= 127 THEN 1
      ELSE IF b0 >= 194 /\ b0 <= 223
        THEN (IF IsCont(c1) THEN 2 ELSE 0)
      ELSE IF b0 = 224
        THEN (IF c1 >= 160 /\ c1 <= 191 /\ IsCont(c2) THEN 3 ELSE 0)
      ELSE IF b0 = 237
        THEN (IF c1 >= 128 /\ c1 <= 159 /\ IsCont(c2) THEN 3 ELSE 0)
      ELSE IF b0 >= 225 /\ b0 <= 239
        THEN (IF IsCont(c1) /\ IsCont(c2) THEN 3 ELSE 0)
      ELSE IF b0 = 240
        THEN (IF c1 >= 144 /\ c1 <= 191 /\ IsCont(c2) /\ IsCont(c3) THEN 4 ELSE 0)
      ELSE IF b0 >= 241 /\ b0 <= 243
        THEN (IF IsCont(c1) /\ IsCont(c2) /\ IsCont(c3) THEN 4 ELSE 0)
      ELSE IF b0 = 244
        THEN (IF c1 >= 128 /\ c1 <= 143 /\ IsCont(c2) /\ IsCont(c3) THEN 4 ELSE 0)
      ELSE 0

\* the code point of the well-formed sequence of k bytes at position i
Utf8Point(b, i, k) ==
  IF k = 1 THEN b[i]
  ELSE IF k = 2 THEN (b[i] % 32) * 64 + (b[i + 1] % 64)
  ELSE IF k = 3 THEN (b[i] % 16) * 4096 + (b[i + 1] % 64) * 64 + (b[i + 2] % 64)
  ELSE (b[i] % 8) * 262144 + (b[i + 1] % 64) * 4096
         + (b[i + 2] % 64) * 64 + (b[i + 3] % 64)

\* a call that may raise: its value, or the exception it raised (err: the
\* type of the exception, or its message when the code gives one)
Ok(val) == [ok |-> TRUE, err |-> None, val |-> val]
Raise(err) == [ok |-> FALSE, err |-> err, val |-> NoneObj]

\* head before the sequence that rest computed, unless rest raised
Prepend(head, rest) == IF rest.ok THEN Ok(head \o rest.val) ELSE rest

RECURSIVE DecFrom(_, _)
DecPoint(b, i, k) ==
  IF k = 0 THEN Raise("UnicodeDecodeError")
  ELSE Prepend(<<Utf8Point(b, i, k)>>, DecFrom(b, i + k))

DecFrom(b, i) == IF i > Len(b) THEN Ok(<<>>) ELSE DecPoint(b, i, Utf8Len(b, i))

\* dec(b): b.decode('utf-8')
dec(b) == DecFrom(b, 1)

\* the UTF-8 bytes of one code point
EncPoint(c) ==
  IF c < 128 THEN <<c>>
  ELSE IF c < 2048 THEN <<192 + (c \div 64), 128 + (c % 64)>>
  ELSE IF c < 65536
    THEN <<224 + (c \div 4096), 128 + ((c \div 64) % 64), 128 + (c % 64)>>
  ELSE <<240 + (c \div 262144), 128 + ((c \div 4096) % 64),
         128 + ((c \div 64) % 64), 128 + (c % 64)>>

RECURSIVE EncFrom(_, _)
EncFrom(s, i) ==
  IF i > Len(s) THEN Ok(<<>>)
  ELSE IF s[i] >= 55296 /\ s[i] <= 57343 THEN Raise("UnicodeEncodeError")
  ELSE Prepend(EncPoint(s[i]), EncFrom(s, i + 1))

\* enc(s): s.encode('utf-8')
enc(s) == EncFrom(s, 1)

(***************************************************************************)
(* HTTP messages: the state of an http.HTTPRequest / http.HTTPResponse     *)
(* (get_state / from_state), byte-string fields as byte sequences.         *)
(***************************************************************************)
HttpRequest(host, method, path, headers, content) ==
  [http_version |-> <<72, 84, 84, 80, 47, 49, 46, 49>>,   \* b"HTTP/1.1"
   headers      |-> headers,
   content      |-> content,
   host         |-> host,
   port         |-> 80,
   method       |-> method,
   scheme       |-> <<104, 116, 116, 112>>,               \* b"http"
   authority    |-> <<>>,
   path         |-> path]

HttpResponse(status_code, reason, headers, content) ==
  [http_version |-> <<72, 84, 84, 80, 47, 49, 46, 49>>,
   headers      |-> headers,
   content      |-> content,
   status_code  |-> status_code,
   reason       |-> reason]

\* bytes.decode('utf-8', 'surrogateescape'), which the message attributes
\* (scheme, path, method, header values) are read through: an undecodable
\* byte b becomes the lone surrogate U+DC00 + b
RECURSIVE DecEscFrom(_, _)
DecEscPoint(b, i, k) ==
  IF k = 0 THEN <<56320 + b[i]>> \o DecEscFrom(b, i + 1)
  ELSE <<Utf8Point(b, i, k)>> \o DecEscFrom(b, i + k)

DecEscFrom(b, i) == IF i > Len(b) THEN <<>> ELSE DecEscPoint(b, i, Utf8Len(b, i))

DecEsc(b) == DecEscFrom(b, 1)

\* request.url: the arguments url.unparse joins into the URL text
Url(request) ==
  [scheme |-> DecEsc(request.scheme), host |-> request.host,
   port |-> request.port, path |-> DecEsc(request.path)]

LowerByte(b) == IF b >= 65 /\ b <= 90 THEN b + 32 ELSE b
Lower(s) == [i \in 1..Len(s) |-> LowerByte(s[i])]

\* name in request.headers: header names match without regard to case
HasHeader(request, name) ==
  \E i \in 1..Len(request.headers) : Lower(request.headers[i][1]) = Lower(name)

\* request.headers[name]: the values of the header, joined by ", "
RECURSIVE HeaderValueFrom(_, _, _)
HeaderValueFrom(request, name, i) ==
  IF i > Len(request.headers) THEN <<>>
  ELSE IF Lower(request.headers[i][1]) # Lower(name)
    THEN HeaderValueFrom(request, name, i + 1)
  ELSE IF \E j \in (i + 1)..Len(request.headers) :
            Lower(request.headers[j][1]) = Lower(name)
    THEN DecEsc(request.headers[i][2]) \o <<44, 32>>
           \o HeaderValueFrom(request, name, i + 1)
  ELSE DecEsc(request.headers[i][2])

HeaderValue(request, name) == HeaderValueFrom(request, name, 1)

(***************************************************************************)
(* serialize / deserialize.  The JSON text is modelled by the document it  *)
(* holds: the state with its byte fields decoded to text.                  *)
(***************************************************************************)
FIELDS == {"content", "http_version", "scheme", "authority", "path", "method", "reason"}

\* a record or sequence of outcomes as one outcome: an exception among
\* them, or the record or sequence of the values
AllOk(rs) ==
  IF \A k \in DOMAIN rs : rs[k].ok
    THEN Ok([k \in DOMAIN rs |-> rs[k].val])
    ELSE Raise(rs[CHOOSE k \in DOMAIN rs : ~rs[k].ok].err)

\* (dec(k), dec(v)) of a header pair
DecPair(h) == AllOk(<<dec(h[1]), dec(h[2])>>)

\* serialize(operation): the JSON document, unless a byte string is not UTF-8
serialize(operation) ==
  AllOk([f \in DOMAIN operation |->
           IF f \in FIELDS THEN dec(operation[f])
           ELSE IF f = "headers"
             THEN AllOk([i \in 1..Len(operation.headers) |->
                           DecPair(operation.headers[i])])
             ELSE Ok(operation[f])])

\* (enc(k), enc(v)) of a header pair
EncPair(h) == AllOk(<<enc(h[1]), enc(h[2])>>)

\* deserialize(data): the state of the message
deserialize(data) ==
  AllOk([f \in DOMAIN data |->
           IF f \in FIELDS THEN enc(data[f])
           ELSE IF f = "headers"
             THEN AllOk([i \in 1..Len(data.headers) |-> EncPair(data.headers[i])])
             ELSE Ok(data[f])])

(***************************************************************************)
(* ProtocolTest: the expectation derived from a request, and its check.    *)
(***************************************************************************)
\* ["Host", "X-Amz-Target", "Content-Type"]
MUST_MATCH_HEADERS ==
  << <<72, 111, 115, 116>>,
     <<88, 45, 65, 109, 122, 45, 84, 97, 114, 103, 101, 116>>,
     <<67, 111, 110, 116, 101, 110, 116, 45, 84, 121, 112, 101>> >>

\* ["Authorization", "X-Amz-Date"]
MUST_EXIST_HEADERS ==
  << <<65, 117, 116, 104, 111, 114, 105, 122, 97, 116, 105, 111, 110>>,
     <<88, 45, 65, 109, 122, 45, 68, 97, 116, 101>> >>

\* the dict {name: request.headers[name] for name in MUST_MATCH_HEADERS if
\* name in request.headers}, as its items in insertion order
RECURSIVE MatchHeadersFrom(_, _)
MatchHeadersFrom(request, i) ==
  IF i > Len(MUST_MATCH_HEADERS) THEN <<>>
  ELSE (IF HasHeader(request, MUST_MATCH_HEADERS[i])
          THEN << <<MUST_MATCH_HEADERS[i], HeaderValue(request, MUST_MATCH_HEADERS[i])>> >>
          ELSE <<>>)
       \o MatchHeadersFrom(request, i + 1)

\* the ProtocolTest built from request, body the outcome of
\* request.content.decode('utf-8')
Expectation(request, body) ==
  IF ~body.ok THEN body
  ELSE Ok([id                 |-> "todo",
           uri                |-> Url(request),
           method             |-> DecEsc(request.method),
           body               |-> body.val,
           authScheme         |-> NoneObj,
           queryParams        |-> <<>>,
           forbidQueryParams  |-> <<>>,
           requireQueryParams |-> <<>>,
           headers            |-> MatchHeadersFrom(request, 1),
           forbidHeaders      |-> <<>>,
           requireHeaders     |-> MUST_EXIST_HEADERS,
           params             |-> << <<"todo", "todo">> >>,
           vendorParams       |-> <<>>,
           documentation      |-> "todo"])

\* ProtocolTest.from_request; raises when request.content is not UTF-8
from_request(request) == Expectation(request, dec(request.content))

\* the message "Incorrect URL actual: {request.url} expected: {self.uri}"
IncorrectUrl(actual, expected) ==
  [error |-> "Incorrect URL", actual |-> actual, expected |-> expected, header |-> <<>>]

\* a comparison that reports the two URLs the wrong way round
validate_request_swapped(self, request) ==
  IF Url(request) # self.uri
    THEN <<IncorrectUrl(self.uri, Url(request))>>
    ELSE <<>>

\* ProtocolTest.validate_request
validate_request(self, request) ==
  IF Url(request) # self.uri
    THEN <<IncorrectUrl(Url(request), self.uri)>>
    ELSE <<>>

Action(request, response, request_validator) ==
  [request |-> request, response |-> response, request_validator |-> request_validator]

TestCase(id, actions) == [id |-> id, actions |-> actions]

(***************************************************************************)
(* The test case store: one directory per test id under BASE_DIR, holding  *)
(* the files <i>.request.json, <i>.response.json, <i>.protocolTest.json.   *)
(* A directory is [exists, files]; files maps the names <<i, kind>> of the *)
(* files present to their content: EmptyFile (opened for writing, nothing  *)
(* written) or a JSON document.                                            *)
(***************************************************************************)
EmptyFile == [json |-> FALSE]
JsonFile(doc) == [json |-> TRUE, doc |-> doc]

NoDir == [exists |-> FALSE, files |-> <<>>]

\* open(name, 'w') followed by f.write(content)
WriteFile(files, name, content) ==
  [n \in (DOMAIN files) \cup {name} |-> IF n = name THEN content ELSE files[n]]

\* with open(name, 'w') as f: f.write(content), content the outcome of
\* computing the text: open creates the file empty before the text is
\* computed, so an exception leaves it empty.  The value is the files after.
WriteOrFail(files, name, content) ==
  IF content.ok
    THEN Ok(WriteFile(files, name, JsonFile(content.val)))
    ELSE [ok |-> FALSE, err |-> content.err, val |-> WriteFile(files, name, EmptyFile)]

\* the three files of action i, written in order until one raises; prev is
\* the outcome of the write before
WriteRequest(files, i, action) ==
  WriteOrFail(files, <<i, "request">>, serialize(action.request))

WriteResponse(prev, i, action) ==
  IF ~prev.ok THEN prev
  ELSE WriteOrFail(prev.val, <<i, "response">>, serialize(action.response))

WriteProtocolTest(prev, i, action) ==
  IF ~prev.ok THEN prev
  ELSE WriteOrFail(prev.val, <<i, "protocolTest">>, from_request(action.request))

SaveAction(files, i, action) ==
  WriteProtocolTest(WriteResponse(WriteRequest(files, i, action), i, action), i, action)

\* the loop of save from index i on (0-based, action i is recording[i + 1]);
\* SaveRest goes on to index i + 1 unless the files of index i raised
RECURSIVE SaveFrom(_, _, _)
SaveRest(prev, recording, i) ==
  IF prev.ok THEN SaveFrom(prev.val, recording, i + 1) ELSE prev

SaveFrom(files, recording, i) ==
  IF i >= Len(recording) THEN Ok(files)
  ELSE SaveRest(SaveAction(files, i, recording[i + 1]), recording, i)

\* the store with the directory of test_id made and holding files
WithDir(store, test_id, saved) ==
  [ok |-> saved.ok, err |-> saved.err,
   val |-> [store EXCEPT ![test_id] = [exists |-> TRUE, files |-> saved.val]]]

\* save(): the store after it (val), and whether it returned or raised
save(store, test_id, recording) ==
  IF test_id = None
    THEN [ok |-> FALSE, err |-> "TypeError", val |-> store]
    ELSE WithDir(store, test_id, SaveFrom(store[test_id].files, recording, 0))

\* range(100) in load_testcase
MaxSeq == 100

\* a read that takes a missing file for an empty document
ReadJson_default(files, name) ==
  IF name \notin DOMAIN files THEN Ok(NoneObj)
  ELSE IF ~files[name].json THEN Raise("JSONDecodeError")
  ELSE Ok(files[name].doc)

\* json.loads / json.load of a file
ReadJson(files, name) ==
  IF name \notin DOMAIN files THEN Raise("FileNotFoundError")
  ELSE IF ~files[name].json THEN Raise("JSONDecodeError")
  ELSE Ok(files[name].doc)

\* HTTPRequest.from_state(deserialize(f.read())), and the same of a
\* response; json the outcome of reading the file
Deserialized(json) == IF json.ok THEN deserialize(json.val) ELSE json
ReadMessage(files, name) == Deserialized(ReadJson(files, name))

\* the Action of the three files read, or the first exception in the order
\* request, response, protocolTest
ActionRead(request, response, protocol_test) ==
  IF ~request.ok THEN request
  ELSE IF ~response.ok THEN response
  ELSE IF ~protocol_test.ok THEN protocol_test
  ELSE Ok(Action(request.val, response.val, protocol_test.val))

LoadAction(files, i) ==
  ActionRead(ReadMessage(files, <<i, "request">>),
             ReadMessage(files, <<i, "response">>),
             ReadJson(files, <<i, "protocolTest">>))

\* the loop of load_testcase from index i on; LoadRest appends the action
\* of index i and goes on to index i + 1
RECURSIVE LoadFrom(_, _)
LoadRest(action, files, i) ==
  IF ~action.ok THEN action
  ELSE Prepend(<<action.val>>, LoadFrom(files, i + 1))

LoadFrom(files, i) ==
  IF i >= MaxSeq \/ <<i, "request">> \notin DOMAIN files THEN Ok(<<>>)
  ELSE LoadRest(LoadAction(files, i), files, i)

\* TestCase(id=test_id, actions=actions), unless the loop raised
Loaded(test_id, actions) ==
  IF actions.ok THEN Ok(TestCase(test_id, actions.val)) ELSE actions

load_testcase(store, test_id) ==
  IF ~store[test_id].exists THEN Raise("test case does not exist")
  ELSE Loaded(test_id, LoadFrom(store[test_id].files, 0))

(***************************************************************************)
(* Inputs: test ids, the messages clients and servers exchange.            *)
(***************************************************************************)
TestIds == {"t1", "t2"}
\* an id that is never recorded, for start_test
MissingId == "t0"
StoreIds == TestIds \cup {MissingId}

\* b"X-Debug", a header an expectation may forbid
XDebug == <<88, 45, 68, 101, 98, 117, 103>>

\* GET http://svc/ping, no headers, no body
ReqPing == HttpRequest("svc", <<71, 69, 84>>, <<47, 112, 105, 110, 103>>, <<>>, <<>>)
\* POST http://svc/put with Host and Authorization headers, body "a"
ReqPut ==
  HttpRequest("svc", <<80, 79, 83, 84>>, <<47, 112, 117, 116>>,
              << <<<<72, 111, 115, 116>>, <<115, 118, 99>>>>,
                 <<<<65, 117, 116, 104, 111, 114, 105, 122, 97, 116, 105, 111, 110>>,
                   <<107>>>> >>,
              <<97>>)
\* ReqPut with one more header, x-debug: k
ReqPutDebug == [ReqPut EXCEPT !.headers = Append(@, <<Lower(XDebug), <<107>>>>)]
\* GET http://crucible/record/stop: a call to the harness's control host
ReqCtl ==
  HttpRequest("crucible", <<71, 69, 84>>,
              <<47, 114, 101, 99, 111, 114, 100, 47, 115, 116, 111, 112>>, <<>>, <<>>)

\* 200 OK, body "pong"
RespPong == HttpResponse(200, <<79, 75>>, <<>>, <<112, 111, 110, 103>>)
\* 201 Created, body "é" (two bytes of UTF-8)
RespMade == HttpResponse(201, <<67, 114, 101, 97, 116, 101, 100>>, <<>>, <<195, 169>>)
\* 200 OK, body 0xFF (not UTF-8)
RespBin == HttpResponse(200, <<79, 75>>, <<>>, <<255>>)

\* a flow as the proxy hands it to a hook
Flow(request, response) ==
  [request |-> request, response |-> response, is_replay |-> None,
   intercepted |-> FALSE, killed |-> FALSE]

\* completed exchanges delivered to Record.response: all text
TextFlows == {Flow(ReqPing, RespPong), Flow(ReqPut, RespMade), Flow(ReqCtl, RespPong)}
\* the same, and one whose response body is not UTF-8
BinaryFlows == TextFlows \cup {Flow(ReqPing, RespBin)}

\* requests delivered to Test.request, before any response exists
RequestFlows == {Flow(ReqPing, NoneObj), Flow(ReqPut, NoneObj), Flow(ReqCtl, NoneObj)}
\* the same, and one that carries the x-debug header
DebugRequestFlows == RequestFlows \cup {Flow(ReqPutDebug, NoneObj)}

(***************************************************************************)
(* State.                                                                  *)
(***************************************************************************)
VARIABLES
  script,         \* the addon script the proxy runs: "record" or "test"
  recording,      \* record.py: recording
  test_id,        \* record.py: test_id
  test_state,     \* test.py: test_state (NoneObj or a TestState)
  store,          \* the directories under BASE_DIR, by test id
  calls,          \* test.py: the calls of Test.request that found the session
                  \* in progress, in the order they read it
  out             \* the last call: its name, its argument, the session it
                  \* found, what it returned, the flow as it left it

vars == <<script, recording, test_id, test_state, store, calls, out>>

TestState(requests, test_case) == [requests |-> requests, test_case |-> test_case]

\* the recording session a call of record.py finds
RecordingSession == [test_id |-> test_id, recording |-> recording]

\* what a control endpoint returned
Returned(op, arg, found, ret) ==
  [op |-> op, arg |-> arg, found |-> found, ret |-> ret, flow |-> NoneObj]
\* an endpoint that raised instead of returning
Raised(op, arg, found, err) ==
  [op |-> op, arg |-> arg, found |-> found, ret |-> [raised |-> err], flow |-> NoneObj]
\* the flow as a hook left it
Hooked(op, found, flow) ==
  [op |-> op, arg |-> None, found |-> found, ret |-> NoneObj, flow |-> flow]

InitGlobals ==
  /\ recording = <<>>
  /\ test_id = None
  /\ test_state = NoneObj
  /\ calls = <<>>
  /\ out = Returned("init", None, NoneObj, NoneObj)

Init ==
  /\ script \in {"record", "test"}
  /\ InitGlobals
  /\ store = [t \in StoreIds |-> NoDir]

(***************************************************************************)
(* The proxy is started with one addon script, whose globals start afresh. *)
(***************************************************************************)
RunScript(s) ==
  /\ script # s
  /\ script' = s
  /\ recording' = <<>>
  /\ test_id' = None
  /\ test_state' = NoneObj
  /\ calls' = <<>>
  /\ out' = Returned("run", s, NoneObj, NoneObj)
  /\ UNCHANGED store

(***************************************************************************)
(* record.py                                                               *)
(***************************************************************************)
\* start_recording that forgets to empty the list
start_recording_keep(_test_id) ==
  /\ script = "record"
  /\ test_id' = _test_id
  /\ out' = Returned("start_recording", _test_id, RecordingSession, [status |-> "ok"])
  /\ UNCHANGED <<recording, script, test_state, store, calls>>

start_recording(_test_id) ==
  /\ script = "record"
  /\ recording' = <<>>
  /\ test_id' = _test_id
  /\ out' = Returned("start_recording", _test_id, RecordingSession, [status |-> "ok"])
  /\ UNCHANGED <<script, test_state, store, calls>>

\* stop_recording, saved the outcome of save()
StopWith(saved) ==
  /\ store' = saved.val
  /\ IF saved.ok
       THEN /\ recording' = <<>>
            /\ test_id' = None
            /\ out' = Returned("stop_recording", None, RecordingSession,
                               [status |-> "ok", actions |-> Len(recording)])
       ELSE /\ UNCHANGED <<recording, test_id>>
            /\ out' = Raised("stop_recording", None, RecordingSession, saved.err)

stop_recording ==
  /\ script = "record"
  /\ StopWith(save(store, test_id, recording))
  /\ UNCHANGED <<script, test_state, calls>>

\* the condition without its test of the host
Recorded_any(flow) == test_id # None

\* the condition of Record.response
Recorded(flow) == test_id # None /\ flow.request.host # "crucible"

RecordResponse(flow) ==
  /\ script = "record"
  /\ IF Recorded(flow)
       THEN /\ Len(recording) < MaxRecording
            /\ recording' = Append(recording, Action(flow.request, flow.response, NoneObj))
       ELSE UNCHANGED recording
  /\ out' = Hooked("Record.response", RecordingSession, flow)
  /\ UNCHANGED <<script, test_id, test_state, store, calls>>

(***************************************************************************)
(* test.py                                                                 *)
(***************************************************************************)
\* next_response that does not advance with the requests
next_response_first(self) ==
  IF Len(self.test_case.actions) > Len(self.requests)
    THEN self.test_case.actions[1].response
    ELSE NoneObj

\* TestState.next_response
next_response(self) ==
  IF Len(self.test_case.actions) > Len(self.requests)
    THEN self.test_case.actions[Len(self.requests) + 1].response
    ELSE NoneObj

\* a try block that installs a session before the load has succeeded
StartWith_partial(id, loaded) ==
  /\ test_state' = TestState(<<>>, IF loaded.ok THEN loaded.val ELSE TestCase(id, <<>>))
  /\ calls' = <<>>
  /\ out' = Returned("start_test", id, test_state,
                     IF loaded.ok THEN [status |-> "ok"]
                     ELSE [status |-> "error", msg |-> loaded.err])

\* the try block of start_testcase, loaded the outcome of load_testcase
StartWith(id, loaded) ==
  IF loaded.ok
    THEN /\ test_state' = TestState(<<>>, loaded.val)
         /\ calls' = <<>>
         /\ out' = Returned("start_test", id, test_state, [status |-> "ok"])
    ELSE /\ UNCHANGED <<test_state, calls>>
         /\ out' = Returned("start_test", id, test_state,
                            [status |-> "error", msg |-> loaded.err])

\* start_testcase without the test for a session in progress
start_testcase_reload(id) ==
  /\ script = "test"
  /\ StartWith(id, load_testcase(store, id))
  /\ UNCHANGED <<script, recording, test_id, store>>

start_testcase(id) ==
  /\ script = "test"
  /\ IF test_state # NoneObj
       THEN /\ out' = Returned("start_test", id, test_state,
                               [status |-> "error",
                                msg |-> <<"test case", test_state.test_case.id,
                                          "is already in progress">>])
            /\ UNCHANGED <<test_state, calls>>
       ELSE StartWith(id, load_testcase(store, id))
  /\ UNCHANGED <<script, recording, test_id, store>>

\* clear_test that empties the list of requests and keeps the session
clear_test_keep ==
  /\ script = "test"
  /\ test_state' = IF test_state = NoneObj THEN NoneObj
                   ELSE TestState(<<>>, test_state.test_case)
  /\ calls' = <<>>
  /\ out' = Returned("clear_test", None, test_state, [status |-> "ok"])
  /\ UNCHANGED <<script, recording, test_id, store>>

clear_test ==
  /\ script = "test"
  /\ test_state' = NoneObj
  /\ calls' = <<>>
  /\ out' = Returned("clear_test", None, test_state, [status |-> "ok"])
  /\ UNCHANGED <<script, recording, test_id, store>>

\* the loop of check_test over zip(requests, actions), from position i on
RECURSIVE CheckFrom(_, _, _)
CheckFrom(requests, actions, i) ==
  IF i > Len(requests) \/ i > Len(actions) THEN <<>>
  ELSE (IF actions[i].request_validator # NoneObj
          THEN validate_request(actions[i].request_validator, requests[i])
          ELSE <<"Action did not have validator">>)
       \o CheckFrom(requests, actions, i + 1)

\* a check that reports a wrong count only when there are too many requests
CheckResult_more(state) ==
  IF state = NoneObj
    THEN [status |-> "error", msg |-> "No test case in progress"]
  ELSE IF Len(state.requests) > Len(state.test_case.actions)
    THEN [status |-> "ok", msg |-> "Wrong number of requests received"]
  ELSE [status |-> "ok", errors |-> CheckFrom(state.requests, state.test_case.actions, 1)]

\* the dict check_test returns
CheckResult(state) ==
  IF state = NoneObj
    THEN [status |-> "error", msg |-> "No test case in progress"]
  ELSE IF Len(state.requests) # Len(state.test_case.actions)
    THEN [status |-> "ok", msg |-> "Wrong number of requests received"]
  ELSE [status |-> "ok", errors |-> CheckFrom(state.requests, state.test_case.actions, 1)]

\* check_test that empties the list of requests once it has compared them
check_test_reset ==
  /\ script = "test"
  /\ out' = Returned("check_test", None, test_state, CheckResult(test_state))
  /\ test_state' = IF test_state = NoneObj THEN NoneObj
                   ELSE TestState(<<>>, test_state.test_case)
  /\ UNCHANGED <<script, recording, test_id, store, calls>>

check_test ==
  /\ script = "test"
  /\ out' = Returned("check_test", None, test_state, CheckResult(test_state))
  /\ UNCHANGED <<script, recording, test_id, test_state, store, calls>>

\* the condition of Test.request
Replayed(flow) == test_state # NoneObj /\ flow.request.host # "crucible"

\* a hook that does not kill the flow when the responses have run out
AnswerFlow_forward(flow, next) ==
  IF next = NoneObj
    THEN flow
    ELSE [flow EXCEPT !.response = next, !.is_replay = "response"]

\* Test.request: the flow as the hook leaves it (intercepted, then resumed),
\* next the value of next_response()
AnswerFlow(flow, next) ==
  IF next = NoneObj
    THEN [flow EXCEPT !.killed = TRUE]
    ELSE [flow EXCEPT !.response = next, !.is_replay = "response"]

\* a hook that does not count the requests it kills
Served_uncounted(state, flow) ==
  [state |-> IF next_response(state) = NoneObj THEN state
             ELSE [state EXCEPT !.requests = Append(@, flow.request)],
   flow  |-> AnswerFlow(flow, next_response(state))]

\* the body of Test.request under its condition: the session and the flow after
Served(state, flow) ==
  [state |-> [state EXCEPT !.requests = Append(@, flow.request)],
   flow  |-> AnswerFlow(flow, next_response(state))]

\* a call of Test.request: the flow it holds, the index len(self.requests)
\* and the response that next_response() computed for it, and how far it is:
\* "computed" after next_response(), "done" after flow.resume().  overlapped:
\* another call was between the two while this one was
Call(flow, index, next, pc, overlapped) ==
  [flow |-> flow, index |-> index, next |-> next, pc |-> pc, overlapped |-> overlapped]

TestRequest(flow) ==
  /\ script = "test"
  /\ IF Replayed(flow)
       THEN /\ Len(test_state.requests) < MaxRequests
            /\ test_state' = Served(test_state, flow).state
            /\ calls' = Append(calls, Call(Served(test_state, flow).flow,
                                           Len(test_state.requests),
                                           next_response(test_state), "done", FALSE))
            /\ out' = Hooked("Test.request", test_state, Served(test_state, flow).flow)
       ELSE /\ UNCHANGED <<test_state, calls>>
            /\ out' = Hooked("Test.request", test_state, flow)
  /\ UNCHANGED <<script, recording, test_id, store>>

(***************************************************************************)
(* Specifications.                                                         *)
(***************************************************************************)
RecordNext(ids, flows) ==
  \/ \E t \in ids : start_recording(t)
  \/ stop_recording
  \/ \E flow \in flows : RecordResponse(flow)

TestNext(flows) ==
  \/ \E t \in StoreIds : start_testcase(t)
  \/ clear_test
  \/ check_test
  \/ \E flow \in flows : TestRequest(flow)

\* text traffic, recorded under two test ids
Next ==
  \/ \E s \in {"record", "test"} : RunScript(s)
  \/ RecordNext(TestIds, TextFlows)
  \/ TestNext(RequestFlows)

Spec == Init /\ [][Next]_vars

\* traffic with a body that is not UTF-8, recorded under one test id
NextBinary ==
  \/ \E s \in {"record", "test"} : RunScript(s)
  \/ RecordNext({"t1"}, BinaryFlows)
  \/ TestNext(RequestFlows)

SpecBinary == Init /\ [][NextBinary]_vars

(***************************************************************************)
(* A store whose one test case, t1, was written by hand: the exchange      *)
(* (ReqPut, RespMade) with an expectation that may forbid a header.        *)
(***************************************************************************)
AuthoredExpectations ==
  {[from_request(ReqPut).val EXCEPT !.forbidHeaders = fh, !.requireHeaders = rh] :
     fh \in {<<>>, <<XDebug>>}, rh \in {<<>>, MUST_EXIST_HEADERS}}

AuthoredDir(e) ==
  [exists |-> TRUE,
   files  |-> [n \in {<<0, "request">>, <<0, "response">>, <<0, "protocolTest">>} |->
                 IF n[2] = "request" THEN JsonFile(serialize(ReqPut).val)
                 ELSE IF n[2] = "response" THEN JsonFile(serialize(RespMade).val)
                 ELSE JsonFile(e)]]

InitAuthored ==
  /\ script = "test"
  /\ InitGlobals
  /\ \E e \in AuthoredExpectations :
       store = [t \in StoreIds |-> IF t = "t1" THEN AuthoredDir(e) ELSE NoDir]

NextCompare == TestNext(DebugRequestFlows)

SpecCompare == InitAuthored /\ [][NextCompare]_vars

(***************************************************************************)
(* The codec on its own: serialize applied to a message, deserialize to    *)
(* the text it gave.  The bytes: "a", the two bytes of "\u00e9", and 0xFF.   *)
(***************************************************************************)
CodecBytes == {97, 195, 169, 255}

Bodies == UNION {[1..n -> CodecBytes] : n \in 0..MaxBody}

\* header pairs: the names "X" and 0xFF, the values "a" and "\u00e9"
HeaderPairs == {<<name, value>> : name \in {<<88>>, <<255>>},
                                  value \in {<<97>>, <<195, 169>>}}

HeaderLists == UNION {[1..n -> HeaderPairs] : n \in 0..MaxHeaders}

Messages ==
  {HttpRequest("svc", <<71, 69, 84>>, <<47>>, headers, content) :
     headers \in HeaderLists, content \in Bodies}
  \cup {HttpResponse(200, <<79, 75>>, headers, content) :
          headers \in HeaderLists, content \in Bodies}

\* each run of the codec takes one message
Serialize(m) ==
  /\ out.op = "init"
  /\ out' = Returned("serialize", m, NoneObj, serialize(m))
  /\ UNCHANGED <<script, recording, test_id, test_state, store, calls>>

Deserialize ==
  /\ out.op = "serialize"
  /\ out.ret.ok
  /\ out' = Returned("deserialize", out.ret.val, out.arg, deserialize(out.ret.val))
  /\ UNCHANGED <<script, recording, test_id, test_state, store, calls>>

NextCodec ==
  \/ \E m \in Messages : Serialize(m)
  \/ Deserialize

SpecCodec == Init /\ [][NextCodec]_vars

(***************************************************************************)
(* The process is killed inside save(), after the directory is made: w of  *)
(* the files have been written whole, and the next may have been opened.   *)
(***************************************************************************)
Kinds == <<"request", "response", "protocolTest">>

\* the files after the first r files of action i are written
Partial(files, i, action, r) ==
  IF r = 0 THEN files
  ELSE IF r = 1 THEN WriteRequest(files, i, action).val
  ELSE WriteResponse(WriteRequest(files, i, action), i, action).val

\* open(name, 'w') with nothing written after it
Opened(files, name, opened) ==
  IF opened THEN WriteFile(files, name, EmptyFile) ELSE files

\* the files when save() has written w files of actions, in its order
Interrupted(files, actions, w, opened) ==
  Opened(Partial(SaveFrom(files, SubSeq(actions, 1, w \div 3), 0).val,
                 w \div 3, actions[(w \div 3) + 1], w % 3),
         <<w \div 3, Kinds[(w % 3) + 1]>>, opened)

\* the proxy dies in stop_recording; its globals are gone, the files stay
SaveKilled(w, opened) ==
  /\ script = "record"
  /\ test_id # None
  /\ w < 3 * Len(recording)
  /\ store' = [store EXCEPT ![test_id] =
                 [exists |-> TRUE,
                  files  |-> Interrupted(store[test_id].files, recording, w, opened)]]
  /\ recording' = <<>>
  /\ test_id' = None
  /\ out' = [op |-> "killed", arg |-> w, found |-> RecordingSession,
             ret |-> NoneObj, flow |-> NoneObj]
  /\ UNCHANGED <<script, test_state, calls>>

NextCrash ==
  \/ \E s \in {"record", "test"} : RunScript(s)
  \/ RecordNext({"t1"}, TextFlows)
  \/ TestNext(RequestFlows)
  \/ \E w \in 0..(3 * MaxRecording - 1), opened \in BOOLEAN : SaveKilled(w, opened)

SpecCrash == Init /\ [][NextCrash]_vars

(***************************************************************************)
(* A store as the replay controller may find it: the directory of t1 as a  *)
(* recording of two exchanges left it, with any of its files removed since. *)
(***************************************************************************)
SavedRecording ==
  <<Action(ReqPing, RespPong, NoneObj), Action(ReqPut, RespMade, NoneObj)>>

SavedFiles == SaveFrom(<<>>, SavedRecording, 0).val

Without(files, removed) == [n \in (DOMAIN files) \ removed |-> files[n]]

InitStore ==
  /\ script = "test"
  /\ InitGlobals
  /\ \E removed \in SUBSET (DOMAIN SavedFiles) :
       store = [t \in StoreIds |->
                  IF t = "t1"
                    THEN [exists |-> TRUE, files |-> Without(SavedFiles, removed)]
                    ELSE NoDir]

NextStore == TestNext(RequestFlows)

SpecStore == InitStore /\ [][NextStore]_vars

(***************************************************************************)
(* Test.request in two steps, for an engine that may run one call while    *)
(* another is between them: up to next_response() (the index and the       *)
(* response are computed), and from the append to flow.resume().           *)
(***************************************************************************)
\* the calls that have computed their response are marked as overlapped
Overlap(cs) ==
  [k \in DOMAIN cs |->
     IF cs[k].pc = "computed" THEN [cs[k] EXCEPT !.overlapped = TRUE] ELSE cs[k]]

TestRequestBegin(flow) ==
  /\ script = "test"
  /\ Replayed(flow)
  /\ Len(calls) < MaxRequests
  /\ calls' = Append(Overlap(calls),
                     Call([flow EXCEPT !.intercepted = TRUE],
                          Len(test_state.requests), next_response(test_state),
                          "computed",
                          \E k \in DOMAIN calls : calls[k].pc = "computed"))
  /\ out' = Hooked("Test.request.next_response", test_state,
                   [flow EXCEPT !.intercepted = TRUE])
  /\ UNCHANGED <<script, recording, test_id, test_state, store>>

\* the second step without the append to the list of requests
TestRequestEnd_noappend(k) ==
  /\ script = "test"
  /\ k \in DOMAIN calls
  /\ calls[k].pc = "computed"
  /\ test_state # NoneObj
  /\ calls' = [calls EXCEPT ![k] =
                 Call(AnswerFlow([calls[k].flow EXCEPT !.intercepted = FALSE],
                                 calls[k].next),
                      calls[k].index, calls[k].next, "done", calls[k].overlapped)]
  /\ out' = Hooked("Test.request", test_state, calls'[k].flow)
  /\ UNCHANGED <<script, recording, test_id, test_state, store>>

TestRequestEnd(k) ==
  /\ script = "test"
  /\ k \in DOMAIN calls
  /\ calls[k].pc = "computed"
  /\ test_state # NoneObj
  /\ test_state' = [test_state EXCEPT !.requests = Append(@, calls[k].flow.request)]
  /\ calls' = [calls EXCEPT ![k] =
                 Call(AnswerFlow([calls[k].flow EXCEPT !.intercepted = FALSE],
                                 calls[k].next),
                      calls[k].index, calls[k].next, "done", calls[k].overlapped)]
  /\ out' = Hooked("Test.request", test_state, calls'[k].flow)
  /\ UNCHANGED <<script, recording, test_id, store>>

NextOverlap ==
  \/ \E t \in StoreIds : start_testcase(t)
  \/ \E flow \in RequestFlows : TestRequestBegin(flow)
  \/ \E k \in 1..MaxRequests : TestRequestEnd(k)

SpecOverlap == InitStore /\ [][NextOverlap]_vars

(***************************************************************************)
(* Properties.                                                             *)
(***************************************************************************)
IsControl(flow) == flow.request.host = "crucible"

\* the last call was Test.request on a flow that is not a control call, and
\* it found a session
ReplayedLast ==
  /\ out.op = "Test.request"
  /\ out.found # NoneObj
  /\ ~IsControl(out.flow)

\* C1: in a replay session on a test case with N actions, the k-th request
\* that is not a control call (k <= N) is answered with the stored response
\* of action k (index k - 1) and marked as a replayed response, whatever the
\* request is.
C1_PositionalReplay ==
  (ReplayedLast /\ Len(test_state.requests) <= Len(test_state.test_case.actions)) =>
    /\ Len(test_state.requests) = Len(out.found.requests) + 1
    /\ out.flow.response =
         test_state.test_case.actions[Len(test_state.requests)].response
    /\ out.flow.is_replay = "response"
    /\ ~out.flow.killed

\* the second request repeats the request of action 1 and is answered with
\* the response of action 2, which differs from that of action 1
C1_Witness ==
  /\ ReplayedLast
  /\ Len(test_state.requests) = 2
  /\ Len(test_state.test_case.actions) = 2
  /\ out.flow.request = test_state.test_case.actions[1].request
  /\ out.flow.request # test_state.test_case.actions[2].request
  /\ test_state.test_case.actions[1].response # test_state.test_case.actions[2].response
  /\ out.flow.response = test_state.test_case.actions[2].response

\* C2: every request after the N-th is killed: it gets no response, it is
\* not forwarded (a flow goes on to its destination only when the hook leaves
\* it alive and without a response), and check_test then reports the count
\* and compares nothing.
C2_Exhaustion ==
  /\ (ReplayedLast /\ Len(test_state.requests) > Len(test_state.test_case.actions)) =>
       /\ out.flow.killed
       /\ out.flow.response = NoneObj
       /\ out.flow.is_replay = None
  /\ (/\ out.op = "check_test"
      /\ test_state # NoneObj
      /\ Len(test_state.requests) > Len(test_state.test_case.actions)) =>
       "errors" \notin DOMAIN out.ret

\* request 3 of a test case of 2 actions has just been killed
C2_Witness ==
  /\ ReplayedLast
  /\ Len(test_state.test_case.actions) = 2
  /\ Len(test_state.requests) = 3
  /\ out.flow.killed
  /\ out.flow.response = NoneObj

\* C3: a flow to the control host "crucible" is never appended to recording
\* by Record.response, and Test.request neither appends it to requests nor
\* answers nor kills it: both sessions stay as the hook found them.
C3_SelfExclusion ==
  /\ (out.op = "Record.response" /\ IsControl(out.flow)) =>
       RecordingSession = out.found
  /\ (out.op = "Test.request" /\ IsControl(out.flow)) =>
       /\ test_state = out.found
       /\ out.flow = Flow(out.flow.request, NoneObj)
  /\ \A i \in 1..Len(recording) : recording[i].request.host # "crucible"
  /\ test_state # NoneObj =>
       \A i \in 1..Len(test_state.requests) : test_state.requests[i].host # "crucible"

\* a control call has just passed Record.response while a session was armed
\* and held an action
C3_Witness ==
  /\ out.op = "Record.response"
  /\ IsControl(out.flow)
  /\ test_id # None
  /\ Len(recording) = 1

\* C4: start_test while a session is in progress returns an error and leaves
\* the session as it was (test case, requests, and so the next response),
\* for every id given.
C4_StartWhileActive ==
  (out.op = "start_test" /\ out.found # NoneObj) =>
    /\ out.ret.status = "error"
    /\ "msg" \in DOMAIN out.ret
    /\ test_state = out.found
    /\ next_response(test_state) = next_response(out.found)

\* start_test of an id without storage, refused during a session that has
\* seen one request
C4_Witness ==
  /\ out.op = "start_test"
  /\ out.arg = MissingId
  /\ out.found # NoneObj
  /\ out.ret.status = "error"
  /\ Len(test_state.requests) = 1
  /\ Len(test_state.test_case.actions) = 2

\* C5: start_test while idle, of an id whose load raises (no directory, or
\* any other error), returns {status: error, msg} and leaves no session; with
\* no session a request is left untouched and check_test reports that no test
\* is in progress.
C5_FailedStart ==
  /\ (out.op = "start_test" /\ out.found = NoneObj
        /\ ~load_testcase(store, out.arg).ok) =>
       /\ out.ret.status = "error"
       /\ out.ret.msg = load_testcase(store, out.arg).err
       /\ test_state = NoneObj
  /\ (out.op = "Test.request" /\ test_state = NoneObj) =>
       out.flow = Flow(out.flow.request, NoneObj)
  /\ (out.op = "check_test" /\ test_state = NoneObj) =>
       out.ret = [status |-> "error", msg |-> "No test case in progress"]

\* start_test has just failed on a file that holds no JSON
C5_Witness ==
  /\ out.op = "start_test"
  /\ out.found = NoneObj
  /\ store[out.arg].exists
  /\ out.ret = [status |-> "error", msg |-> "JSONDecodeError"]
  /\ test_state = NoneObj

\* C6: check_test on a session whose number of requests differs from the
\* number of actions returns the count message alone: no errors list.
C6_CountMismatch ==
  (/\ out.op = "check_test"
   /\ test_state # NoneObj
   /\ Len(test_state.requests) # Len(test_state.test_case.actions)) =>
    out.ret = [status |-> "ok", msg |-> "Wrong number of requests received"]

\* check_test after 1 request of a test case of 2 actions
C6_Witness ==
  /\ out.op = "check_test"
  /\ test_state # NoneObj
  /\ Len(test_state.requests) = 1
  /\ Len(test_state.test_case.actions) = 2
  /\ "errors" \notin DOMAIN out.ret

\* a client that issues the requests from position i on to the session
\* state, one Test.request each: the flows as answered, and the session after
RECURSIVE ReplayFrom(_, _, _)
ReplayFrom(state, requests, i) ==
  IF i > Len(requests) THEN [state |-> state, flows |-> <<>>]
  ELSE LET after == ReplayFrom(Served(state, Flow(requests[i], NoneObj)).state,
                               requests, i + 1)
       IN  [state |-> after.state,
            flows |-> <<Served(state, Flow(requests[i], NoneObj)).flow>> \o after.flows]

\* start_test(T) on the store as it is, the recorded requests issued again
\* in order, then check_test: start_test succeeds, request i is answered with
\* the recorded response i, and check_test returns {status: ok, errors: []}
EndToEndOk(T, actions) ==
  /\ load_testcase(store, T).ok
  /\ LET run == ReplayFrom(TestState(<<>>, load_testcase(store, T).val),
                           [i \in 1..Len(actions) |-> actions[i].request], 1)
     IN  /\ \A i \in 1..Len(actions) :
               /\ run.flows[i].response = actions[i].response
               /\ run.flows[i].is_replay = "response"
         /\ CheckResult(run.state) = [status |-> "ok", errors |-> <<>>]

\* C7: after start_recording(T), N recorded exchanges and stop_recording, a
\* start_test(T) followed by the N recorded requests in order answers each
\* with its recorded response, and check_test returns status ok with no
\* errors; also for requests without the Authorization and X-Amz-Date headers.
C7_EndToEnd ==
  (out.op = "stop_recording" /\ out.found.test_id # None) =>
    EndToEndOk(out.found.test_id, out.found.recording)

\* a violation that names header h
NamesHeader(error, h) == error.header = h

\* request meets expectation e in all but its forbidden headers: the URL, the
\* headers to match, the headers to exist
MeetsOtherwise(e, request) ==
  /\ Url(request) = e.uri
  /\ \A i \in 1..Len(e.headers) :
       /\ HasHeader(request, e.headers[i][1])
       /\ HeaderValue(request, e.headers[i][1]) = e.headers[i][2]
  /\ \A i \in 1..Len(e.requireHeaders) : HasHeader(request, e.requireHeaders[i])

\* C8: for an expectation that forbids header h and a request that meets it
\* otherwise, the comparison yields exactly one violation, naming h, when the
\* request has h, and none when it has not.
C8_ForbiddenHeader ==
  (/\ out.op = "check_test"
   /\ test_state # NoneObj
   /\ Len(test_state.requests) = 1
   /\ Len(test_state.test_case.actions) = 1
   /\ Len(test_state.test_case.actions[1].request_validator.forbidHeaders) = 1
   /\ MeetsOtherwise(test_state.test_case.actions[1].request_validator,
                     test_state.requests[1])) =>
    IF HasHeader(test_state.requests[1],
                 test_state.test_case.actions[1].request_validator.forbidHeaders[1])
      THEN /\ Len(out.ret.errors) = 1
           /\ NamesHeader(out.ret.errors[1],
                          test_state.test_case.actions[1].request_validator.forbidHeaders[1])
      ELSE out.ret.errors = <<>>

\* C9: stop_recording with no session armed completes, reports status ok with
\* 0 actions, writes nothing to the store and leaves the controller idle.
C9_StopWhileIdle ==
  [][(out'.op = "stop_recording" /\ test_id = None) =>
       /\ out'.ret = [status |-> "ok", actions |-> 0]
       /\ store' = store
       /\ test_id' = None
       /\ recording' = <<>>]_vars

\* the content stop_recording writes for a file of an action
Artifact(action, kind) ==
  IF kind = "request" THEN serialize(action.request)
  ELSE IF kind = "response" THEN serialize(action.response)
  ELSE from_request(action.request)

\* between the stores before and after, only the directory of T changed, and
\* every file of it that changed is a file of an action of the list
OnlyWrote(before, after, T, actions) ==
  /\ \A t \in StoreIds \ {T} : after[t] = before[t]
  /\ after[T].exists
  /\ DOMAIN before[T].files \subseteq DOMAIN after[T].files
  /\ \A n \in DOMAIN after[T].files :
       \/ n \in DOMAIN before[T].files /\ after[T].files[n] = before[T].files[n]
       \/ /\ n[1] < Len(actions)
          /\ Artifact(actions[n[1] + 1], n[2]).ok
          /\ after[T].files[n] = JsonFile(Artifact(actions[n[1] + 1], n[2]).val)

\* C10: start_recording(T2) while armed for T1 arms T2 with an empty list and
\* writes nothing: the actions of T1 are dropped.  The stop_recording that
\* follows writes the files of the exchanges recorded since, all of them,
\* under T2 and nowhere else.
C10_Restart ==
  [][/\ (out'.op = "start_recording") =>
          /\ recording' = <<>>
          /\ test_id' = out'.arg
          /\ store' = store
     /\ (out'.op = "Record.response") =>
          /\ Len(recording') <= Len(recording) + 1
          /\ \A i \in 1..Len(recording) : recording'[i] = recording[i]
          /\ Len(recording') = Len(recording) + 1 =>
               recording'[Len(recording')] =
                 Action(out'.flow.request, out'.flow.response, NoneObj)
          /\ test_id' = test_id
     /\ (out'.op = "stop_recording" /\ test_id # None) =>
          /\ OnlyWrote(store, store', test_id, recording)
          /\ \A i \in 0..(Len(recording) - 1) :
               \A kind \in {"request", "response", "protocolTest"} :
                 <<i, kind>> \in DOMAIN store'[test_id].files
          /\ out'.ret = [status |-> "ok", actions |-> Len(recording)]]_vars

\* start_recording("t2") has just replaced a session armed for t1 that held
\* two actions; nothing of t1 is in the store
C10_Witness ==
  /\ out.op = "start_recording"
  /\ out.arg = "t2"
  /\ out.found.test_id = "t1"
  /\ Len(out.found.recording) = 2
  /\ recording = <<>>
  /\ test_id = "t2"
  /\ ~store["t1"].exists

\* C11: stop_recording while armed for T with n actions writes the request,
\* response and expectation files of every index 0..n-1, each holding the
\* i-th exchange captured, returns {status: ok, actions: n} and leaves the
\* controller idle with an empty list; an exchange that completes while idle
\* is not recorded, and a stop while idle writes nothing.
C11_StopWritesAll ==
  [][/\ (out'.op = "stop_recording" /\ test_id # None) =>
          /\ out'.ret = [status |-> "ok", actions |-> Len(recording)]
          /\ \A i \in 0..(Len(recording) - 1) :
               \A kind \in {"request", "response", "protocolTest"} :
                 /\ <<i, kind>> \in DOMAIN store'[test_id].files
                 /\ Artifact(recording[i + 1], kind).ok
                 /\ store'[test_id].files[<<i, kind>>] =
                      JsonFile(Artifact(recording[i + 1], kind).val)
          /\ test_id' = None
          /\ recording' = <<>>
     /\ (out'.op = "Record.response" /\ test_id = None) => recording' = <<>>
     /\ (out'.op = "stop_recording" /\ test_id = None) => store' = store]_vars

\* the actions load_testcase is to return for a recorded list: each exchange
\* with the expectation derived from its request
Stored(actions) ==
  [i \in 1..Len(actions) |->
     Action(actions[i].request, actions[i].response,
            from_request(actions[i].request).val)]

\* C12: after start_recording(T), N exchanges and stop_recording,
\* load_testcase(T) returns a TestCase of exactly those N exchanges in order,
\* whatever the directory of T held before.
C12_LoadAfterRecord ==
  (out.op = "stop_recording" /\ out.found.test_id # None) =>
    load_testcase(store, out.found.test_id) =
      Ok(TestCase(out.found.test_id, Stored(out.found.recording)))

\* the three files of index i are present
Complete(files, i) ==
  \A kind \in {"request", "response", "protocolTest"} : <<i, kind>> \in DOMAIN files

\* the scan of load_testcase finds a request file at every index up to i,
\* and at i the response file or the expectation file is missing
MissingSibling(files) ==
  \E n \in DOMAIN files :
    /\ \A j \in 0..n[1] : <<j, "request">> \in DOMAIN files
    /\ ~Complete(files, n[1])

\* C13: when an index the scan reaches has its request file but not its
\* response file or not its expectation file, load_testcase raises and
\* returns no TestCase, and start_test reports the error and stays idle.
C13_MissingSibling ==
  \A t \in StoreIds :
    (store[t].exists /\ MissingSibling(store[t].files)) =>
      /\ ~load_testcase(store, t).ok
      /\ load_testcase(store, t).val = NoneObj
      /\ (out.op = "start_test" /\ out.arg = t /\ out.found = NoneObj) =>
           /\ out.ret.status = "error"
           /\ "msg" \in DOMAIN out.ret
           /\ test_state = NoneObj

\* start_test("t1") has just failed on a directory that holds index 0 whole
\* and, of index 1, the request file but not the response file
C13_Witness ==
  /\ out.op = "start_test"
  /\ out.arg = "t1"
  /\ out.found = NoneObj
  /\ Complete(store["t1"].files, 0)
  /\ <<1, "request">> \in DOMAIN store["t1"].files
  /\ <<1, "response">> \notin DOMAIN store["t1"].files
  /\ out.ret = [status |-> "error", msg |-> "FileNotFoundError"]
  /\ test_state = NoneObj

\* C14: when save() of n actions for T is interrupted before all 3n files are
\* written, the next load_testcase(T) raises: it returns no TestCase, so none
\* that holds only the first actions of the n.
C14_CrashMidSave ==
  out.op = "killed" => ~load_testcase(store, out.found.test_id).ok

\* C15: for every message, with header names, header values and body any
\* byte strings, serialize succeeds, and deserialize of its text is the
\* message again, field for field, the header pairs in the same order.
C15_RoundTrip ==
  /\ out.op = "serialize" => out.ret.ok
  /\ out.op = "deserialize" => out.ret = Ok(out.found)

\* C16: clear_test returns ok and leaves no session, whatever it finds: no
\* session, a session with any number of requests, a session past its last
\* action.  A start_test that follows it, of a test case that loads, succeeds
\* with an empty list of requests, and the first request after a start_test
\* is answered with the response of action 0.
C16_ClearTest ==
  [][/\ (out'.op = "clear_test") =>
          /\ out'.ret = [status |-> "ok"]
          /\ test_state' = NoneObj
     /\ (/\ out.op = "clear_test"
         /\ out'.op = "start_test"
         /\ load_testcase(store, out'.arg).ok) =>
          /\ out'.ret = [status |-> "ok"]
          /\ test_state' = TestState(<<>>, load_testcase(store, out'.arg).val)
     /\ (/\ out.op = "start_test"
         /\ out.ret.status = "ok"
         /\ out'.op = "Test.request"
         /\ ~IsControl(out'.flow)
         /\ Len(test_state.test_case.actions) > 0) =>
          /\ out'.flow.response = test_state.test_case.actions[1].response
          /\ out'.flow.is_replay = "response"]_vars

\* clear_test has just ended a session that had seen 3 requests for its 2
\* actions
C16_Witness ==
  /\ out.op = "clear_test"
  /\ out.ret = [status |-> "ok"]
  /\ out.found # NoneObj
  /\ Len(out.found.test_case.actions) = 2
  /\ Len(out.found.requests) = 3
  /\ test_state = NoneObj

\* what check_test is to report for position i of a session: the URL
\* violation with the actual and the expected URL, the entry for an action
\* without expectation, or nothing
ErrorsAt(state, i) ==
  IF state.test_case.actions[i].request_validator = NoneObj
    THEN <<"Action did not have validator">>
  ELSE IF Url(state.requests[i]) # state.test_case.actions[i].request_validator.uri
    THEN <<[error    |-> "Incorrect URL",
            actual   |-> Url(state.requests[i]),
            expected |-> state.test_case.actions[i].request_validator.uri,
            header   |-> <<>>]>>
  ELSE <<>>

RECURSIVE ErrorsUpTo(_, _)
ErrorsUpTo(state, n) ==
  IF n = 0 THEN <<>> ELSE ErrorsUpTo(state, n - 1) \o ErrorsAt(state, n)

\* C17: check_test on a session with as many requests as actions returns
\* status ok and the errors list that holds, in the order of the positions,
\* one URL violation (actual and expected URL) for each position whose
\* request URL differs from the expectation's uri, one entry for each
\* position without expectation, and nothing for a position that matches.
C17_CheckErrors ==
  (/\ out.op = "check_test"
   /\ test_state # NoneObj
   /\ Len(test_state.requests) = Len(test_state.test_case.actions)) =>
    out.ret = [status |-> "ok",
               errors |-> ErrorsUpTo(test_state, Len(test_state.requests))]

\* check_test after two requests for two actions, the first with the URL of
\* its action and the second with another: one violation, for position 2
C17_Witness ==
  /\ out.op = "check_test"
  /\ test_state # NoneObj
  /\ Len(test_state.requests) = 2
  /\ Len(test_state.test_case.actions) = 2
  /\ Url(test_state.requests[1]) = test_state.test_case.actions[1].request_validator.uri
  /\ Url(test_state.requests[2]) # test_state.test_case.actions[2].request_validator.uri
  /\ Len(out.ret.errors) = 1
  /\ out.ret.errors[1].actual = Url(test_state.requests[2])
  /\ out.ret.errors[1].expected = test_state.test_case.actions[2].request_validator.uri

\* C18: check_test changes nothing: the session (none, or its test case and
\* its requests) and the store are as before, a check_test right after a
\* check_test returns the same, and a request after a check_test is answered
\* as it would have been from the session that the check_test found.
C18_CheckFrame ==
  [][/\ (out'.op = "check_test") =>
          /\ test_state' = test_state
          /\ calls' = calls
          /\ store' = store
     /\ (out.op = "check_test" /\ out'.op = "check_test") => out'.ret = out.ret
     /\ (/\ out.op = "check_test"
         /\ out.found # NoneObj
         /\ out'.op = "Test.request"
         /\ ~IsControl(out'.flow)) =>
          /\ out'.flow = AnswerFlow(Flow(out'.flow.request, NoneObj),
                                    next_response(out.found))
          /\ test_state'.requests = Append(out.found.requests, out'.flow.request)]_vars

\* check_test has just compared two requests with two actions and left them
C18_Witness ==
  /\ out.op = "check_test"
  /\ out.found # NoneObj
  /\ "errors" \in DOMAIN out.ret
  /\ Len(out.found.requests) = 2
  /\ test_state = out.found

\* more requests than actions
Exhausted(state) ==
  state # NoneObj /\ Len(state.requests) > Len(state.test_case.actions)

\* C19: within a session the list of requests only grows and the test case
\* stays; a killed request is counted; so once a request has been killed for
\* want of a response the session stays past its last action until it ends,
\* and every check_test of it returns the count message.
C19_ExhaustedStays ==
  [][/\ (test_state # NoneObj /\ test_state' # NoneObj) =>
          /\ test_state'.test_case = test_state.test_case
          /\ Len(test_state'.requests) >= Len(test_state.requests)
          /\ SubSeq(test_state'.requests, 1, Len(test_state.requests)) =
               test_state.requests
     /\ (out'.op = "Test.request" /\ out'.flow.killed) =>
          /\ Len(test_state'.requests) = Len(test_state.requests) + 1
          /\ Exhausted(test_state')
     /\ (Exhausted(test_state) /\ test_state' # NoneObj) => Exhausted(test_state')
     /\ (out'.op = "check_test" /\ Exhausted(test_state)) =>
          out'.ret = [status |-> "ok", msg |-> "Wrong number of requests received"]]_vars

\* check_test of a session of 1 action that has seen 3 requests, two of them
\* killed
C19_Witness ==
  /\ out.op = "check_test"
  /\ Exhausted(test_state)
  /\ Len(test_state.test_case.actions) = 1
  /\ Len(test_state.requests) = 3
  /\ Len(calls) = 3
  /\ calls[2].flow.killed
  /\ calls[3].flow.killed
  /\ out.ret = [status |-> "ok", msg |-> "Wrong number of requests received"]

\* the calls that have ended with a stored response in their flow
ServedCalls ==
  {k \in DOMAIN calls : calls[k].pc = "done" /\ calls[k].flow.response # NoneObj}

\* C20: in a session whose calls of Test.request each ran as one step, no
\* two requests are answered with the response of the same action index, and
\* the indices answered are 0..j-1, j the smaller of the number of requests
\* and the number of actions.
C20_ServedOnce ==
  (test_state # NoneObj /\ \A k \in DOMAIN calls : ~calls[k].overlapped) =>
    /\ \A i, k \in ServedCalls : i # k => calls[i].index # calls[k].index
    /\ {calls[k].index : k \in ServedCalls} =
         0..((IF Len(test_state.requests) < Len(test_state.test_case.actions)
                THEN Len(test_state.requests)
                ELSE Len(test_state.test_case.actions)) - 1)

\* two calls, the second begun before the first had appended its request,
\* have both ended with the response of action 0
C20_Witness ==
  \E i, k \in ServedCalls :
    /\ i # k
    /\ calls[i].overlapped
    /\ calls[k].overlapped
    /\ calls[i].index = 0
    /\ calls[k].index = 0
    /\ calls[i].flow.response = test_state.test_case.actions[1].response
    /\ calls[k].flow.response = test_state.test_case.actions[1].response

====
